---- MODULE Spec2Model ----
(***************************************************************************)
(* ConsoleReporter of the benchmark library (src/console_reporter.cc):     *)
(* ReportContext fixes the session layout and prints the header,           *)
(* ReportRuns prints one line per run of a group and, for a repeated       *)
(* benchmark, the lines of the mean and stddev records, PrintRunData       *)
(* formats one run record into one line.                                   *)
(*                                                                         *)
(* Numbers: the code computes in double; the model computes in integers    *)
(* and rationals (a multiplier is num/den), and "%10.0f" is rounding to    *)
(* the nearest integer, ties to even.  A division by zero is the IEEE      *)
(* result (inf or nan), as a double division produces it.                  *)
(***************************************************************************)
EXTENDS Integers, Sequences, FiniteSets

\* ------------------------------------------------------------------ bounds
\* Longest group of runs handed to ReportRuns.
MaxRuns == 3
\* Largest iteration count of an input run (0 .. MaxIterations).
MaxIterations == 2

\* ------------------------------------------------------- program constants
\* "%10.0f": field width of a time column.
TimeFieldWidth == 10
\* "%10lld": field width of the iterations column.
IterationsFieldWidth == 10
\* " %*s", 13: field width of a bytes-per-second annotation.
RateFieldWidth == 13
\* " %*s", 18: field width of an items-per-second annotation.
ItemsFieldWidth == 18
\* "%13s": field width of a time column title in the header.
HeaderTimeWidth == 13

\* ------------------------------------------------------------------- state
VARIABLES
    name_field_width_,   \* ConsoleReporter::name_field_width_
    manual_time_used_,   \* ConsoleReporter::manual_time_used_
    header,              \* the header and rule line last printed by ReportContext
    pc,                  \* position: "idle", inside ReportRuns ("loop", ...), "aborted"
    reports,             \* argument of the current ReportRuns call
    i,                   \* index of the range-for loop of ReportRuns (1-based)
    mean_data,           \* local of ReportRuns
    stddev_data,         \* local of ReportRuns
    out,                 \* run lines written to stdout by the current call
    printed,             \* the records PrintRunData was called with, in order
    stats_calls,         \* for each ComputeStats call of this call: Len(out) then
    sawManual,           \* some ReportContext call had context.manual_time_used
    lastCtx              \* what the latest ReportContext call observed

vars == <<name_field_width_, manual_time_used_, header, pc, reports, i, mean_data,
          stddev_data, out, printed, stats_calls, sawManual, lastCtx>>

layout == <<name_field_width_, manual_time_used_>>

\* ------------------------------------------------------------ input domains
Names == {"BM_a", "BM_b"}
TimeUnits == {"kNanosecond", "kMicrosecond", "kMillisecond"}
Widths == {9, 20}

Run(name, iters, real, cpu, manual, unit, bps, ips, bpms, ipms, both, label) ==
    [benchmark_name |-> name, iterations |-> iters,
     real_accumulated_time |-> real, cpu_accumulated_time |-> cpu,
     manual_accumulated_time |-> manual, time_unit |-> unit,
     bytes_per_second |-> bps, items_per_second |-> ips,
     bytes_per_manual_second |-> bpms, items_per_manual_second |-> ipms,
     both_manual_and_real_time |-> both, report_label |-> label]

\* A value-initialised Run (Run mean_data; Run stddev_data;).
NoRun == Run("", 0, 0, 0, 0, "kNanosecond", 0, 0, 0, 0, FALSE, "")

\* Runs of repeated benchmarks: groups of up to MaxRuns of these.
GroupPool ==
    { Run(n, it, 10 + 10 * it, 30, 0, "kNanosecond", 0, 0, 0, 0, FALSE, "")
        : n \in Names, it \in {0, MaxIterations} }
    \cup
    { Run("BM_a", 1, 2500, 3500, 4000, "kMicrosecond", 1000, 7, bpms, 0, FALSE, "lbl")
        : bpms \in {0, 500} }

\* Runs of benchmarks run once: every combination of the fields PrintRunData reads.
SinglePool ==
    { Run("BM_a", it, real, 3000, manual, unit, bps, ips, bpms, ipms, both, "")
        : it \in 0..MaxIterations, real \in {5, 2500, 3500000}, manual \in {0, 4000},
          unit \in TimeUnits, bps \in {0, 1000}, ips \in {0, 7},
          bpms \in {0, 500}, ipms \in {0, 2000000}, both \in BOOLEAN }

SeqsUpTo(S, n) == UNION { [1..k -> S] : k \in 0..n }

Groups == SeqsUpTo(GroupPool, MaxRuns) \cup { <<r>> : r \in SinglePool }

Contexts == [name_field_width : Widths, manual_time_used : BOOLEAN]

\* ------------------------------------------------------------ collaborators
\* CHECK_EQ(a, b) of check.h: TRUE when the check passes; a failed check aborts.
CHECK_EQ(a, b) == a = b

\* GetTimeUnitAndMultiplier: the unit label and the display multiplier num/den.
GetTimeUnitAndMultiplier(unit) ==
    CASE unit = "kNanosecond"  -> [timeLabel |-> "ns", num |-> 1, den |-> 1]
      [] unit = "kMicrosecond" -> [timeLabel |-> "us", num |-> 1, den |-> 1000]
      [] unit = "kMillisecond" -> [timeLabel |-> "ms", num |-> 1, den |-> 1000000]

\* HumanReadableNumber: mantissa and magnitude suffix, in steps of 1000.
HumanReadableNumber(v) ==
    IF v < 1000 THEN [mantissa |-> v, suffix |-> ""]
    ELSE IF v < 1000000 THEN [mantissa |-> v \div 1000, suffix |-> "k"]
    ELSE [mantissa |-> v \div 1000000, suffix |-> "M"]

\* StrCat and the empty std::string.
StrCat(a, b, c) == <<a, b, c>>
EmptyString == <<>>

RECURSIVE SumOf(_, _)
SumOf(xs, k) == IF k = 0 THEN 0 ELSE xs[k] + SumOf(xs, k - 1)

RECURSIVE MaxOf(_, _)
\* The largest of the first k elements of a sequence of naturals.
MaxOf(xs, k) ==
    IF k = 0 THEN 0
    ELSE LET m == MaxOf(xs, k - 1) IN IF xs[k] > m THEN xs[k] ELSE m

RECURSIVE IsqrtIn(_, _, _)
\* The largest r in lo..hi with r * r <= x.
IsqrtIn(x, lo, hi) ==
    IF lo >= hi THEN lo
    ELSE LET mid == (lo + hi + 1) \div 2
         IN  IF mid * mid <= x THEN IsqrtIn(x, mid, hi) ELSE IsqrtIn(x, lo, mid - 1)

\* Arithmetic mean of a sequence of numbers (integer part).
Mean(xs) == SumOf(xs, Len(xs)) \div Len(xs)

\* Population standard deviation (integer part); 0 for a single sample.
Stddev(xs) ==
    IF Len(xs) = 1 THEN 0
    ELSE LET n   == Len(xs)
             s   == SumOf(xs, n)
             sq  == SumOf([k \in 1..n |-> xs[k] * xs[k]], n)
             var == (n * sq - s * s) \div (n * n)
         IN  IsqrtIn(var, 0, MaxOf(xs, n))

\* BenchmarkReporter::ComputeStats: the mean and the stddev record of a group.
ComputeStats(rs) ==
    LET F(g(_), field(_)) ==
            g([k \in 1..Len(rs) |-> field(rs[k])])
        Rec(g(_)) ==
            LET real(r)   == r.real_accumulated_time
                cpu(r)    == r.cpu_accumulated_time
                manual(r) == r.manual_accumulated_time
                bps(r)    == r.bytes_per_second
                ips(r)    == r.items_per_second
                bpms(r)   == r.bytes_per_manual_second
                ipms(r)   == r.items_per_manual_second
                its(r)    == r.iterations
            IN  Run(rs[1].benchmark_name, F(g, its), F(g, real), F(g, cpu),
                    F(g, manual), rs[1].time_unit, F(g, bps), F(g, ips),
                    F(g, bpms), F(g, ipms), rs[1].both_manual_and_real_time,
                    rs[1].report_label)
    IN  [mean |-> Rec(Mean), stddev |-> Rec(Stddev)]

\* ------------------------------------------------------------ PrintRunData
\* "%.0f" of the double n/d: nearest integer, ties to even; inf or nan when d = 0.
FormatFixed0(n, d) ==
    IF d = 0 THEN [cls |-> IF n = 0 THEN "nan" ELSE "inf", n |-> 0]
    ELSE LET q == n \div d
             r == n % d
         IN  [cls |-> "finite",
              n |-> IF 2 * r < d THEN q
                    ELSE IF 2 * r > d THEN q + 1
                    ELSE IF q % 2 = 0 THEN q ELSE q + 1]

\* Iters without the guard for iterations == 0.
Iters_NoGuard(result) == result.iterations

\* double iters = (result.iterations == 0) ? 1 : result.iterations
Iters(result) == IF result.iterations = 0 THEN 1 ELSE result.iterations

\* One "%10.0f %s" column: (accumulated * multiplier) / iters and the unit label.
TimeColumn(series, accumulated, result) ==
    LET m == GetTimeUnitAndMultiplier(result.time_unit)
    IN  [series |-> series, width |-> TimeFieldWidth,
         value |-> FormatFixed0(accumulated * m.num, m.den * Iters(result)),
         timeLabel |-> m.timeLabel]

\* TimeColumns deciding on the run's own manual time instead of manual_time_used_.
TimeColumns_PerRun(result) ==
    IF result.manual_accumulated_time > 0
    THEN << TimeColumn("real", result.real_accumulated_time, result),
            TimeColumn("manual", result.manual_accumulated_time, result),
            TimeColumn("cpu", result.cpu_accumulated_time, result) >>
    ELSE << TimeColumn("real", result.real_accumulated_time, result),
            TimeColumn("cpu", result.cpu_accumulated_time, result) >>

\* The yellow time section: three columns when manual_time_used_, else two.
TimeColumns(result) ==
    IF manual_time_used_
    THEN << TimeColumn("real", result.real_accumulated_time, result),
            TimeColumn("manual", result.manual_accumulated_time, result),
            TimeColumn("cpu", result.cpu_accumulated_time, result) >>
    ELSE << TimeColumn("real", result.real_accumulated_time, result),
            TimeColumn("cpu", result.cpu_accumulated_time, result) >>

\* RateStrings where a manual rate clears items as well as rate.
RateStrings_ClearsBoth(result) ==
    LET manual_rate == IF result.bytes_per_manual_second > 0
                       THEN StrCat(" ", HumanReadableNumber(result.bytes_per_manual_second),
                                   "B/s (manual)")
                       ELSE EmptyString
        manual_items == IF result.items_per_manual_second > 0
                        THEN StrCat(" ", HumanReadableNumber(result.items_per_manual_second),
                                    " items/s (manual)")
                        ELSE EmptyString
        cleared == /\ result.bytes_per_manual_second > 0
                   /\ ~result.both_manual_and_real_time
        rate == IF result.bytes_per_second > 0 /\ ~cleared
                THEN StrCat(" ", HumanReadableNumber(result.bytes_per_second), "B/s")
                ELSE EmptyString
        items == IF result.items_per_second > 0 /\ ~cleared
                 THEN StrCat(" ", HumanReadableNumber(result.items_per_second), " items/s")
                 ELSE EmptyString
    IN  [rate |-> rate, items |-> items,
         manual_rate |-> manual_rate, manual_items |-> manual_items]

\* The strings rate, manual_rate, items, manual_items as PrintRunData builds them.
RateStrings(result) ==
    LET rate0 == IF result.bytes_per_second > 0
                 THEN StrCat(" ", HumanReadableNumber(result.bytes_per_second), "B/s")
                 ELSE EmptyString
        manual_rate == IF result.bytes_per_manual_second > 0
                       THEN StrCat(" ", HumanReadableNumber(result.bytes_per_manual_second),
                                   "B/s (manual)")
                       ELSE EmptyString
        rate == IF result.bytes_per_manual_second > 0 /\ ~result.both_manual_and_real_time
                THEN EmptyString ELSE rate0
        items0 == IF result.items_per_second > 0
                  THEN StrCat(" ", HumanReadableNumber(result.items_per_second), " items/s")
                  ELSE EmptyString
        manual_items == IF result.items_per_manual_second > 0
                        THEN StrCat(" ", HumanReadableNumber(result.items_per_manual_second),
                                    " items/s (manual)")
                        ELSE EmptyString
        items == IF result.items_per_manual_second > 0 /\ ~result.both_manual_and_real_time
                 THEN EmptyString ELSE items0
    IN  [rate |-> rate, items |-> items,
         manual_rate |-> manual_rate, manual_items |-> manual_items]

\* The annotations printed after the iterations column, in print order.
Annotations(result) ==
    LET s == RateStrings(result)
        One(field, width, str) ==
            IF str # EmptyString THEN << [field |-> field, width |-> width, text |-> str] >>
            ELSE << >>
    IN  One("rate", RateFieldWidth, s.rate) \o One("items", ItemsFieldWidth, s.items)
        \o One("manual_rate", RateFieldWidth, s.manual_rate)
        \o One("manual_items", ItemsFieldWidth, s.manual_items)

\* The line PrintRunData writes for one run record.
PrintRunData(result) ==
    [name |-> [color |-> "COLOR_GREEN", width |-> name_field_width_,
               text |-> result.benchmark_name],
     times |-> TimeColumns(result),
     iterations |-> [color |-> "COLOR_CYAN", width |-> IterationsFieldWidth,
                     value |-> result.iterations],
     annotations |-> Annotations(result),
     label |-> result.report_label]

\* ------------------------------------------------------------------ actions
Init ==
    /\ name_field_width_ \in Widths
    /\ manual_time_used_ \in BOOLEAN
    /\ header = [titles |-> << >>, output_width |-> 0, rule |-> 0]
    /\ pc = "idle"
    /\ reports = << >>
    /\ i = 1
    /\ mean_data = NoRun
    /\ stddev_data = NoRun
    /\ out = << >>
    /\ printed = << >>
    /\ stats_calls = << >>
    /\ sawManual = FALSE
    /\ lastCtx = "none"

Max(a, b) == IF a >= b THEN a ELSE b

\* The header line of ReportContext and the length of the rule under it.
Header(width, manual) ==
    LET titles == IF manual
                  THEN <<"Benchmark", "Real time", "Manual time", "CPU", "Iterations">>
                  ELSE <<"Benchmark", "Time", "CPU", "Iterations">>
        ntime == Len(titles) - 2
        output_width == Max(width, Len("Benchmark")) + ntime * (1 + HeaderTimeWidth)
                        + 1 + IterationsFieldWidth + 1
    IN  [titles |-> titles, output_width |-> output_width, rule |-> output_width - 1]

\* ReportContext whose manual branch does not set manual_time_used_.
ReportContext_FlagNotSet(context) ==
    /\ pc = "idle"
    /\ name_field_width_' = context.name_field_width
    /\ header' = Header(context.name_field_width, context.manual_time_used)
    /\ manual_time_used_' = IF context.manual_time_used THEN manual_time_used_ ELSE FALSE
    /\ sawManual' = (sawManual \/ context.manual_time_used)
    /\ lastCtx' = IF context.manual_time_used THEN "manual" ELSE "plain"
    /\ UNCHANGED <<pc, reports, i, mean_data, stddev_data, out, printed, stats_calls>>

ReportContext(context) ==
    /\ pc = "idle"
    /\ name_field_width_' = context.name_field_width
    /\ header' = Header(context.name_field_width, context.manual_time_used)
    /\ manual_time_used_' = IF context.manual_time_used THEN TRUE ELSE FALSE
    /\ sawManual' = (sawManual \/ context.manual_time_used)
    /\ lastCtx' = IF context.manual_time_used THEN "manual" ELSE "plain"
    /\ UNCHANGED <<pc, reports, i, mean_data, stddev_data, out, printed, stats_calls>>

\* ReportRuns with the name check hoisted above the test for an empty group:
\* reports[0] of an empty vector is read, and the call does not return.
ReportRuns_NoEmptyTest(rs) ==
    /\ pc = "idle"
    /\ reports' = rs
    /\ i' = 1
    /\ mean_data' = NoRun
    /\ stddev_data' = NoRun
    /\ out' = << >>
    /\ printed' = << >>
    /\ stats_calls' = << >>
    /\ pc' = IF rs = << >> THEN "aborted" ELSE "loop"
    /\ UNCHANGED <<name_field_width_, manual_time_used_, header, sawManual, lastCtx>>

\* Entry of ReportRuns: an empty group returns at once.
ReportRuns(rs) ==
    /\ pc = "idle"
    /\ reports' = rs
    /\ i' = 1
    /\ mean_data' = NoRun
    /\ stddev_data' = NoRun
    /\ out' = << >>
    /\ printed' = << >>
    /\ stats_calls' = << >>
    /\ pc' = IF rs = << >> THEN "return" ELSE "loop"
    /\ UNCHANGED <<name_field_width_, manual_time_used_, header, sawManual, lastCtx>>

\* The loop without the name check.
ReportRunsLoop_NoCheck ==
    /\ pc = "loop"
    /\ i <= Len(reports)
    /\ out' = Append(out, PrintRunData(reports[i]))
    /\ printed' = Append(printed, reports[i])
    /\ i' = i + 1
    /\ pc' = pc
    /\ UNCHANGED <<name_field_width_, manual_time_used_, header, reports, mean_data,
                   stddev_data, stats_calls, sawManual, lastCtx>>

\* The loop with the line printed before the name check.
ReportRunsLoop_PrintFirst ==
    /\ pc = "loop"
    /\ i <= Len(reports)
    /\ out' = Append(out, PrintRunData(reports[i]))
    /\ printed' = Append(printed, reports[i])
    /\ IF CHECK_EQ(reports[1].benchmark_name, reports[i].benchmark_name)
       THEN /\ i' = i + 1
            /\ pc' = pc
       ELSE /\ pc' = "aborted"
            /\ UNCHANGED i
    /\ UNCHANGED <<name_field_width_, manual_time_used_, header, reports, mean_data,
                   stddev_data, stats_calls, sawManual, lastCtx>>

\* The loop setting manual_time_used_ from the run it prints.
ReportRunsLoop_SetsFlag ==
    /\ pc = "loop"
    /\ i <= Len(reports)
    /\ IF CHECK_EQ(reports[1].benchmark_name, reports[i].benchmark_name)
       THEN /\ out' = Append(out, PrintRunData(reports[i]))
            /\ printed' = Append(printed, reports[i])
            /\ i' = i + 1
            /\ pc' = pc
            /\ manual_time_used_' =
                  (manual_time_used_ \/ reports[i].manual_accumulated_time > 0)
       ELSE /\ pc' = "aborted"
            /\ UNCHANGED <<out, printed, i, manual_time_used_>>
    /\ UNCHANGED <<name_field_width_, header, reports, mean_data,
                   stddev_data, stats_calls, sawManual, lastCtx>>

\* One iteration of the loop: the name check, then the line of the run.
ReportRunsLoop ==
    /\ pc = "loop"
    /\ i <= Len(reports)
    /\ IF CHECK_EQ(reports[1].benchmark_name, reports[i].benchmark_name)
       THEN /\ out' = Append(out, PrintRunData(reports[i]))
            /\ printed' = Append(printed, reports[i])
            /\ i' = i + 1
            /\ pc' = pc
       ELSE /\ pc' = "aborted"
            /\ UNCHANGED <<out, printed, i>>
    /\ UNCHANGED <<name_field_width_, manual_time_used_, header, reports, mean_data,
                   stddev_data, stats_calls, sawManual, lastCtx>>

\* After the loop: a single run is not aggregated.
ReportRunsSingle ==
    /\ pc = "loop"
    /\ i > Len(reports)
    /\ Len(reports) < 2
    /\ pc' = "return"
    /\ UNCHANGED <<name_field_width_, manual_time_used_, header, reports, i, mean_data,
                   stddev_data, out, printed, stats_calls, sawManual, lastCtx>>

\* The aggregates with the size test off by one (size() < 1).
ReportRunsStats_OffByOne ==
    /\ pc = "loop"
    /\ i > Len(reports)
    /\ ~(Len(reports) < 1)
    /\ mean_data' = ComputeStats(reports).mean
    /\ stddev_data' = ComputeStats(reports).stddev
    /\ stats_calls' = Append(stats_calls, Len(out))
    /\ pc' = "print_mean"
    /\ UNCHANGED <<name_field_width_, manual_time_used_, header, reports, i, out,
                   printed, sawManual, lastCtx>>

\* After the loop: the aggregates of a repeated benchmark.
ReportRunsStats ==
    /\ pc = "loop"
    /\ i > Len(reports)
    /\ ~(Len(reports) < 2)
    /\ mean_data' = ComputeStats(reports).mean
    /\ stddev_data' = ComputeStats(reports).stddev
    /\ stats_calls' = Append(stats_calls, Len(out))
    /\ pc' = "print_mean"
    /\ UNCHANGED <<name_field_width_, manual_time_used_, header, reports, i, out,
                   printed, sawManual, lastCtx>>

\* PrintRunData(stddev_data) in the place of PrintRunData(mean_data).
ReportRunsMean_PrintsStddev ==
    /\ pc = "print_mean"
    /\ out' = Append(out, PrintRunData(stddev_data))
    /\ printed' = Append(printed, stddev_data)
    /\ pc' = "print_stddev"
    /\ UNCHANGED <<name_field_width_, manual_time_used_, header, reports, i, mean_data,
                   stddev_data, stats_calls, sawManual, lastCtx>>

\* PrintRunData(mean_data), the first of the two aggregate lines.
ReportRunsMean ==
    /\ pc = "print_mean"
    /\ out' = Append(out, PrintRunData(mean_data))
    /\ printed' = Append(printed, mean_data)
    /\ pc' = "print_stddev"
    /\ UNCHANGED <<name_field_width_, manual_time_used_, header, reports, i, mean_data,
                   stddev_data, stats_calls, sawManual, lastCtx>>

\* PrintRunData(stddev_data), the last line of the report.
ReportRunsStddev ==
    /\ pc = "print_stddev"
    /\ out' = Append(out, PrintRunData(stddev_data))
    /\ printed' = Append(printed, stddev_data)
    /\ pc' = "return"
    /\ UNCHANGED <<name_field_width_, manual_time_used_, header, reports, i, mean_data,
                   stddev_data, stats_calls, sawManual, lastCtx>>

\* Return to the caller: the arguments and locals of the call are gone.
ReportRunsReturn ==
    /\ pc = "return"
    /\ pc' = "idle"
    /\ reports' = << >>
    /\ i' = 1
    /\ mean_data' = NoRun
    /\ stddev_data' = NoRun
    /\ out' = << >>
    /\ printed' = << >>
    /\ stats_calls' = << >>
    /\ UNCHANGED <<name_field_width_, manual_time_used_, header, sawManual, lastCtx>>

Next ==
    \/ \E context \in Contexts : ReportContext(context)
    \/ \E rs \in Groups : ReportRuns(rs)
    \/ ReportRunsLoop
    \/ ReportRunsSingle
    \/ ReportRunsStats
    \/ ReportRunsMean
    \/ ReportRunsStddev
    \/ ReportRunsReturn

Spec == Init /\ [][Next]_vars

\* ------------------------------------------------------- claim vocabulary
SameName(rs) == \A k \in 1..Len(rs) : rs[k].benchmark_name = rs[1].benchmark_name

Mixed(rs) == ~SameName(rs)

\* Index (1-based) of the first run whose name differs from the first run's.
FirstMismatch(rs) ==
    CHOOSE k \in 1..Len(rs) :
        /\ rs[k].benchmark_name # rs[1].benchmark_name
        /\ \A j \in 1..(k - 1) : rs[j].benchmark_name = rs[1].benchmark_name

\* The lines of the raw runs of a group, in input order.
RawLines(rs) == [k \in 1..Len(rs) |-> PrintRunData(rs[k])]

\* The lines of a complete report of a repeated benchmark.
AggregatedReport(rs) ==
    RawLines(rs) \o << PrintRunData(ComputeStats(rs).mean),
                       PrintRunData(ComputeStats(rs).stddev) >>

IsPrefix(s, t) == Len(s) <= Len(t) /\ s = SubSeq(t, 1, Len(s))

Series(line) == [k \in 1..Len(line.times) |-> line.times[k].series]

HasAnnotation(line, field) ==
    \E k \in 1..Len(line.annotations) : line.annotations[k].field = field

\* C1: a group of N >= 2 runs of one benchmark is reported as its N raw lines in
\* input order, then the mean line, then the stddev line (N + 2 lines when the
\* call returns, a prefix of them before); ComputeStats is called exactly once,
\* and when it is called all N raw lines are already out.
C1_AggregatedAfterRawRuns ==
    (pc # "idle" /\ Len(reports) >= 2 /\ SameName(reports)) =>
        /\ pc # "aborted"
        /\ IsPrefix(out, AggregatedReport(reports))
        /\ stats_calls \in { << >>, << Len(reports) >> }
        /\ (stats_calls = << >>) <=> (pc = "loop")
        /\ Len(out) > Len(reports) => stats_calls = << Len(reports) >>
        /\ pc = "return" =>
              /\ Len(out) = Len(reports) + 2
              /\ out = AggregatedReport(reports)

C1_Witness ==
    /\ pc = "return"
    /\ Len(reports) >= 2
    /\ SameName(reports)
    /\ Len(out) = Len(reports) + 2
    /\ stats_calls = << Len(reports) >>
    /\ reports[1] # reports[2]

\* C2: a group of one run is reported as exactly the line PrintRunData gives for
\* that run, with no ComputeStats call; ComputeStats is called only for groups
\* of at least two runs.
C2_SingleRunPassthrough ==
    /\ stats_calls # << >> => Len(reports) >= 2
    /\ pc \in {"print_mean", "print_stddev"} => Len(reports) >= 2
    /\ (pc = "return" /\ Len(reports) = 1) =>
          /\ out = << PrintRunData(reports[1]) >>
          /\ printed = << reports[1] >>
          /\ stats_calls = << >>

C2_Witness ==
    /\ pc = "return"
    /\ Len(reports) = 1
    /\ Len(out) = 1

\* C3: a group with a run named differently from the first run ends in the
\* fatal path: the call never gets past the loop, ComputeStats is not called
\* and no mean or stddev line is written.
C3_MixedGroupAborts ==
    Mixed(reports) =>
        /\ pc \in {"loop", "aborted"}
        /\ pc = "loop" => i <= FirstMismatch(reports)
        /\ stats_calls = << >>
        /\ Len(out) < Len(reports)
        /\ IsPrefix(out, RawLines(reports))

C3_Witness ==
    /\ Mixed(reports)
    /\ pc = "aborted"
    /\ Len(reports) > FirstMismatch(reports)

C5_RateSuppressionPairwise ==
    \A k \in 1..Len(out) :
        LET r == printed[k]
        IN  /\ HasAnnotation(out[k], "rate") <=>
                  /\ r.bytes_per_second > 0
                  /\ ~(r.bytes_per_manual_second > 0 /\ ~r.both_manual_and_real_time)
            /\ HasAnnotation(out[k], "items") <=>
                  /\ r.items_per_second > 0
                  /\ ~(r.items_per_manual_second > 0 /\ ~r.both_manual_and_real_time)
            /\ HasAnnotation(out[k], "manual_rate") <=> r.bytes_per_manual_second > 0
            /\ HasAnnotation(out[k], "manual_items") <=> r.items_per_manual_second > 0

C5_Witness ==
    /\ Len(out) >= 1
    /\ printed[1].bytes_per_manual_second = 500
    /\ printed[1].bytes_per_second = 1000
    /\ ~printed[1].both_manual_and_real_time
    /\ printed[1].items_per_second > 0
    /\ printed[1].items_per_manual_second = 0
    /\ HasAnnotation(out[1], "manual_rate")
    /\ ~HasAnnotation(out[1], "rate")
    /\ HasAnnotation(out[1], "items")

\* C6 as claimed: once some ReportContext call has observed manual timing, every
\* line written afterwards has three time columns, whatever calls follow.
C6_StickyAcrossContexts ==
    sawManual => \A k \in 1..Len(out) : Len(out[k].times) = 3

\* C6 as amended: while the latest ReportContext call is one that observed manual
\* timing, every line written has three time columns, whatever ReportRuns calls
\* follow; a later ReportContext call without manual timing clears the flag.
C6_ManualLayoutUntilNextContext ==
    /\ lastCtx = "manual" => \A k \in 1..Len(out) : Len(out[k].times) = 3
    /\ lastCtx = "plain" => \A k \in 1..Len(out) : Len(out[k].times) = 2

C6_Witness ==
    /\ lastCtx = "manual"
    /\ pc = "return"
    /\ Len(out) >= 3
    /\ \A k \in 1..Len(out) : Len(out[k].times) = 3

\* C7: no step of ReportRuns (PrintRunData included) changes name_field_width_
\* or manual_time_used_: they change only in a ReportContext step.
C7_ReportRunsKeepsLayout ==
    [][(pc # "idle" \/ pc' # "idle") => layout' = layout]_vars

C7_Witness ==
    /\ pc = "return"
    /\ Len(out) = Len(reports) + 2
    /\ lastCtx # "none"

\* C8: the divisor of the time columns is iterations, or 1 when iterations = 0:
\* it is never 0, every time value is finite, and a run with iterations = 0 has
\* the time columns of the same run with iterations = 1.
C8_ZeroIterationsDivisor ==
    \A k \in 1..Len(out) :
        LET r == printed[k]
            m == GetTimeUnitAndMultiplier(r.time_unit)
        IN  /\ Iters(r) # 0
            /\ \A c \in 1..Len(out[k].times) : out[k].times[c].value.cls = "finite"
            /\ r.iterations = 0 =>
                  out[k].times = TimeColumns([r EXCEPT !.iterations = 1])
            /\ r.iterations > 0 =>
                  out[k].times[1].value =
                      FormatFixed0(r.real_accumulated_time * m.num, m.den * r.iterations)

C8_Witness ==
    /\ Len(out) >= 1
    /\ printed[1].iterations = 0
    /\ printed[1].real_accumulated_time = 5
    /\ printed[1].time_unit = "kNanosecond"
    /\ out[1].times[1].value = [cls |-> "finite", n |-> 5]

\* C9: ReportRuns on an empty group writes no line, does not call ComputeStats,
\* does not abort, and returns.
C9_EmptyGroupNoOp ==
    (pc # "idle" /\ reports = << >>) =>
        /\ pc = "return"
        /\ out = << >>
        /\ printed = << >>
        /\ stats_calls = << >>

C9_Witness ==
    /\ pc = "return"
    /\ reports = << >>
    /\ out = << >>

\* C10: when the fatal path is taken at the first run k (k >= 2, counting from 1)
\* whose name differs from the first run's, exactly the lines of the runs before
\* k are out, in order, and none for run k or a later one.
C10_AbortAfterEarlierLines ==
    pc = "aborted" =>
        /\ Mixed(reports)
        /\ FirstMismatch(reports) >= 2
        /\ i = FirstMismatch(reports)
        /\ Len(out) = FirstMismatch(reports) - 1
        /\ out = SubSeq(RawLines(reports), 1, FirstMismatch(reports) - 1)
        /\ printed = SubSeq(reports, 1, FirstMismatch(reports) - 1)

C10_Witness ==
    /\ pc = "aborted"
    /\ FirstMismatch(reports) = 3
    /\ Len(reports) = 3
    /\ Len(out) = 2

====
